---- MODULE Spec2Model ----
(***************************************************************************)
(* Attendance sessions and the scheduled-update ledger of the CMS backend. *)
(*                                                                         *)
(* Time is the minute of the day in the reference timezone.  Every handler *)
(* is cut at its awaits on the database: one action is one database       *)
(* operation together with the synchronous code that issues it, so that    *)
(* two requests interleave exactly where the event loop lets them.         *)
(* save() persists the document as the handler holds it in memory;         *)
(* findByIdAndUpdate applies its update to the stored document.            *)
(***************************************************************************)
EXTENDS Integers, Sequences, FiniteSets, TLC

\* ---------------------------------------------------------------- bounds
MaxSessions == 2
MaxBreaks == 2
MaxRequests == 6
MaxRaceRequests == 3
MaxLedgerRequests == 5
MaxWindowRequests == 2
MaxPairRequests == 3
MaxIsolationRequests == 4
MaxFaultRequests == 3
MaxScenarioRequests == 5
MaxTodayRequests == 3
MaxEntryRequests == 5

\* ----------------------------------------------------------- input sets
Users == {"u1"}
Workers == {"w1", "w2"}
\* minutes of the day the clock visits: 09:05, 10:40, 10:50, 17:30, 17:31
TimeGrid == {545, 640, 650, 1050, 1051}
StartOfDay == 545
\* distance of the submitted coordinate from the office, in metres
Distances == {1000, 1001}
Descriptions == {"done"}
\* descriptions as they arrive in a request body: empty, blank, plain and
\* padded with blanks
RawDescriptions == {"", " ", "done", " done "}
SweepSlots == {<<10, 30>>}
\* minutes the clock visits around the first slot: 09:05, 10:40, 10:41,
\* 10:50, 10:52, 10:55, 10:59, 11:00
LedgerGrid == {545, 640, 641, 650, 652, 655, 659, 660}
\* every minute of the day
MinutesOfDay == 0..1439
\* 09:05, the minutes at which a fixed trigger fires, and minutes at which
\* submits are tried: 10:45, 10:55, 11:40 and 17:30
CadenceGrid ==
    {545, 640, 645, 650, 655, 700, 730, 740, 820, 830, 970, 980, 1050, 1060, 1070}
\* 09:05, a pause from 12:00 to 12:30 or 13:00, and 17:40
ScenarioGrid == {545, 720, 750, 780, 1060}

NoTime == -1
NoDoc == 0
\* the date of a document stamped with the start of the day; a document
\* stamped with the current instant carries the minute of the day
Midnight == 0

\* ------------------------------------------------------ program constants
cutoffTime == 17 * 60 + 30
standardStartTime == 9 * 60 + 15
standardEndTime == 17 * 60 + 30
minWorkHours == 8
standardHours == 8
\* the radius one metre short
radiusMetersShort == 1000 - 1
radiusMeters == 1000
scheduledTimes == << <<10, 30>>, <<12, 0>>, <<13, 30>>, <<16, 0>>, <<17, 30>> >>

\* ------------------------------------------------------------- helpers
\* 'HH:MM'.split(':').map(Number) and hour * 60 + minute
SlotMinutes(s) == s[1] * 60 + s[2]

\* toTimeString().slice(0, 5): the HH:MM of a minute of the day
TimeString(t) == <<t \div 60, t % 60>>

\* Math.round(n / d) for d > 0: halves go up
MathRound(n, d) == (2 * n + d) \div (2 * d)

\* Math.round((minutes / 60) * 100) / 100, kept in hundredths of an hour
Hours100(m) == MathRound(m * 100, 60)

RECURSIVE SumSeq(_)
SumSeq(s) == IF s = <<>> THEN 0 ELSE Head(s) + SumSeq(Tail(s))

\* session.checkIn?.time && !session.checkOut?.time
IsActive(s) == s.checkIn.time # NoTime /\ s.checkOut.time = NoTime

\* the check looking at the first session of the day only
hasActiveSessionFirstOnly(sessions) ==
    Len(sessions) > 0 /\ IsActive(sessions[1])

hasActiveSession(sessions) == \E i \in 1..Len(sessions) : IsActive(sessions[i])

\* findIndex testing checkIn.time alone
activeSessionIndexAnyCheckIn(sessions) ==
    IF \E i \in 1..Len(sessions) : sessions[i].checkIn.time # NoTime
    THEN CHOOSE i \in 1..Len(sessions) :
            sessions[i].checkIn.time # NoTime
            /\ \A j \in 1..(i - 1) : sessions[j].checkIn.time = NoTime
    ELSE 0

\* sessions.findIndex(active), 0 standing for -1
activeSessionIndex(sessions) ==
    IF hasActiveSession(sessions)
    THEN CHOOSE i \in 1..Len(sessions) :
            IsActive(sessions[i]) /\ \A j \in 1..(i - 1) : ~IsActive(sessions[j])
    ELSE 0

\* b.startTime && !b.endTime
IsOngoing(b) == b.startTime # NoTime /\ b.endTime = NoTime

\* find testing for breaks that have ended
ongoingBreakIndexEnded(breaks) ==
    IF \E i \in 1..Len(breaks) : breaks[i].endTime # NoTime
    THEN CHOOSE i \in 1..Len(breaks) :
            breaks[i].endTime # NoTime
            /\ \A j \in 1..(i - 1) : breaks[j].endTime = NoTime
    ELSE 0

\* find testing startTime alone
ongoingBreakIndexAnyStart(breaks) ==
    IF \E i \in 1..Len(breaks) : breaks[i].startTime # NoTime
    THEN CHOOSE i \in 1..Len(breaks) :
            breaks[i].startTime # NoTime
            /\ \A j \in 1..(i - 1) : breaks[j].startTime = NoTime
    ELSE 0

\* breaks.find(ongoing), 0 standing for undefined
ongoingBreakIndex(breaks) ==
    IF \E i \in 1..Len(breaks) : IsOngoing(breaks[i])
    THEN CHOOSE i \in 1..Len(breaks) :
            IsOngoing(breaks[i]) /\ \A j \in 1..(i - 1) : ~IsOngoing(breaks[j])
    ELSE 0

\* a break total that counts no break
totalBreakDurationNone(breaks) == 0

\* virtual totalBreakDuration: minutes of the breaks that have ended
totalBreakDuration(breaks) ==
    SumSeq([i \in 1..Len(breaks) |->
              IF breaks[i].endTime # NoTime
              THEN breaks[i].endTime - breaks[i].startTime ELSE 0])

ZeroSummary ==
    [totalHours |-> 0, totalBreakTime |-> 0, effectiveHours |-> 0,
     overtime |-> 0, undertime |-> 0]

\* the summary with a fixed pause of 30 minutes taken off the effective hours
calculateWorkSummaryFixedPause(sessions, breaks) ==
    IF Len(sessions) = 0 THEN ZeroSummary
    ELSE LET totalWorkMinutes ==
                 SumSeq([i \in 1..Len(sessions) |->
                           IF sessions[i].checkIn.time # NoTime
                              /\ sessions[i].checkOut.time # NoTime
                           THEN sessions[i].checkOut.time - sessions[i].checkIn.time
                           ELSE 0])
             totalBreakMinutes == totalBreakDuration(breaks)
             effective == Hours100(totalWorkMinutes - totalBreakMinutes - 30)
             difference == effective - standardHours * 100
         IN [totalHours |-> Hours100(totalWorkMinutes),
             totalBreakTime |-> totalBreakMinutes,
             effectiveHours |-> effective,
             overtime |-> IF difference > 0 THEN difference ELSE 0,
             undertime |-> IF difference > 0 THEN 0 ELSE 0 - difference]

\* methods.calculateWorkSummary, hours in hundredths
calculateWorkSummary(sessions, breaks) ==
    IF Len(sessions) = 0 THEN ZeroSummary
    ELSE LET totalWorkMinutes ==
                 SumSeq([i \in 1..Len(sessions) |->
                           IF sessions[i].checkIn.time # NoTime
                              /\ sessions[i].checkOut.time # NoTime
                           THEN sessions[i].checkOut.time - sessions[i].checkIn.time
                           ELSE 0])
             totalBreakMinutes == totalBreakDuration(breaks)
             effective == Hours100(totalWorkMinutes - totalBreakMinutes)
             difference == effective - standardHours * 100
         IN [totalHours |-> Hours100(totalWorkMinutes),
             totalBreakTime |-> totalBreakMinutes,
             effectiveHours |-> effective,
             overtime |-> IF difference > 0 THEN difference ELSE 0,
             undertime |-> IF difference > 0 THEN 0 ELSE 0 - difference]

\* a save that runs no pre('save') hook
PreSaveAttendanceNoHook(doc) == doc

\* pre('save') of the attendance schema followed by the write
PreSaveAttendance(doc) ==
    [doc EXCEPT !.workSummary = calculateWorkSummary(doc.sessions, doc.breaks)]

NoCheckOut == [time |-> NoTime, isEarly |-> FALSE, earlyMinutes |-> 0]

\* the session a punch-in at minute t builds
newSession(t) ==
    [checkIn |-> [time |-> t,
                  isLate |-> t > standardStartTime,
                  lateMinutes |-> IF t > standardStartTime
                                  THEN t - standardStartTime ELSE 0],
     checkOut |-> NoCheckOut]

\* the checkOut a punch-out at minute t writes
newCheckOut(t) ==
    [time |-> t,
     isEarly |-> t < standardEndTime,
     earlyMinutes |-> IF t < standardEndTime THEN standardEndTime - t ELSE 0]

PendingEntry(slot) ==
    [scheduledTime |-> slot, status |-> "pending", description |-> "",
     submittedAt |-> NoTime]

\* the filter keeping the slot of minute t itself
RECURSIVE RemainingFromInclusive(_, _)
RemainingFromInclusive(slots, t) ==
    IF slots = <<>> THEN <<>>
    ELSE IF SlotMinutes(Head(slots)) >= t
         THEN <<PendingEntry(Head(slots))>> \o RemainingFromInclusive(Tail(slots), t)
         ELSE RemainingFromInclusive(Tail(slots), t)

\* the slots of scheduledTimes later than minute t, as pending entries
RECURSIVE RemainingFrom(_, _)
RemainingFrom(slots, t) ==
    IF slots = <<>> THEN <<>>
    ELSE IF SlotMinutes(Head(slots)) > t
         THEN <<PendingEntry(Head(slots))>> \o RemainingFrom(Tail(slots), t)
         ELSE RemainingFrom(Tail(slots), t)

\* POST /punch-in: tasksToCreate for currentTotalMinutes = t
tasksToCreate(t) == RemainingFrom(scheduledTimes, t)

\* methods.createScheduledEntries: what it pushes for punchInTime 'HH:MM'
createScheduledEntries(punchInTime) ==
    RemainingFrom(scheduledTimes, SlotMinutes(punchInTime))

\* pre('save') of the task schema: stable sort by minute of the day
RECURSIVE InsertSorted(_, _)
InsertSorted(e, s) ==
    IF s = <<>> THEN <<e>>
    ELSE IF SlotMinutes(e.scheduledTime) < SlotMinutes(Head(s).scheduledTime)
         THEN <<e>> \o s
         ELSE <<Head(s)>> \o InsertSorted(e, Tail(s))

RECURSIVE SortEntries(_)
SortEntries(s) ==
    IF s = <<>> THEN <<>>
    ELSE InsertSorted(s[Len(s)], SortEntries(SubSeq(s, 1, Len(s) - 1)))

\* scheduledEntries.find(e => e.scheduledTime === slot), 0 for undefined
FindEntry(entries, slot) ==
    IF \E i \in 1..Len(entries) : entries[i].scheduledTime = slot
    THEN CHOOSE i \in 1..Len(entries) :
            entries[i].scheduledTime = slot
            /\ \A j \in 1..(i - 1) : entries[j].scheduledTime # slot
    ELSE 0

\* scheduledEntries.find(e => e.scheduledTime === slot && e.status === st)
FindEntryWithStatus(entries, slot, st) ==
    IF \E i \in 1..Len(entries) :
          entries[i].scheduledTime = slot /\ entries[i].status = st
    THEN CHOOSE i \in 1..Len(entries) :
            entries[i].scheduledTime = slot /\ entries[i].status = st
            /\ \A j \in 1..(i - 1) :
                 ~(entries[j].scheduledTime = slot /\ entries[j].status = st)
    ELSE 0

\* the first window taking 11:00 as well
targetScheduledTimeInclusive(t) ==
    IF t <= 11 * 60 THEN <<10, 30>>
    ELSE IF t >= 11 * 60 + 30 /\ t <= 12 * 60 + 30 THEN <<12, 0>>
    ELSE IF t >= 13 * 60 /\ t <= 14 * 60 THEN <<13, 30>>
    ELSE IF t >= 15 * 60 + 30 /\ t <= 16 * 60 + 30 THEN <<16, 0>>
    ELSE IF t >= 17 * 60 /\ t <= 17 * 60 + 30 THEN <<17, 30>>
    ELSE <<>>

\* the last window tested with the bounds of the one before it
targetScheduledTimeCopiedBounds(t) ==
    IF t < 11 * 60 THEN <<10, 30>>
    ELSE IF t >= 11 * 60 + 30 /\ t <= 12 * 60 + 30 THEN <<12, 0>>
    ELSE IF t >= 13 * 60 /\ t <= 14 * 60 THEN <<13, 30>>
    ELSE IF t >= 15 * 60 + 30 /\ t <= 16 * 60 + 30 THEN <<16, 0>>
    ELSE IF t >= 15 * 60 + 30 /\ t <= 16 * 60 + 30 THEN <<17, 30>>
    ELSE <<>>

\* POST /submit-update: the slot a minute of the day resolves to, <<>> if none
targetScheduledTime(t) ==
    IF t < 11 * 60 THEN <<10, 30>>
    ELSE IF t >= 11 * 60 + 30 /\ t <= 12 * 60 + 30 THEN <<12, 0>>
    ELSE IF t >= 13 * 60 /\ t <= 14 * 60 THEN <<13, 30>>
    ELSE IF t >= 15 * 60 + 30 /\ t <= 16 * 60 + 30 THEN <<16, 0>>
    ELSE IF t >= 17 * 60 /\ t <= 17 * 60 + 30 THEN <<17, 30>>
    ELSE <<>>

\* POST /submit-update: the windows as the handler announces them when it
\* refuses a submit: first and last minute accepted, and the closing time
acceptanceWindows ==
    { [slot |-> <<10, 30>>, first |-> 0, last |-> 10 * 60 + 59, close |-> 11 * 60],
      [slot |-> <<12, 0>>, first |-> 11 * 60 + 30, last |-> 12 * 60 + 30,
       close |-> 12 * 60 + 30],
      [slot |-> <<13, 30>>, first |-> 13 * 60, last |-> 14 * 60, close |-> 14 * 60],
      [slot |-> <<16, 0>>, first |-> 15 * 60 + 30, last |-> 16 * 60 + 30,
       close |-> 16 * 60 + 30],
      [slot |-> <<17, 30>>, first |-> 17 * 60, last |-> 17 * 60 + 30,
       close |-> 17 * 60 + 30] }

\* ---------------------------------------------------------------- state
VARIABLES
    now,         \* the current minute of the day
    attendance,  \* the Attendance collection, in insertion order
    tasks,       \* the Task collection, in insertion order
    proc,        \* per worker: the request in flight and its local values
    resp,        \* the response sent by the last step, "none" if it sent none
    requests     \* number of requests accepted so far

vars == <<now, attendance, tasks, proc, resp, requests>>

Now == now

IdleProc ==
    [pc |-> "idle", op |-> "none", user |-> "none", dist |-> 0,
     desc |-> "", slot |-> <<>>,
     attId |-> NoDoc, sessions |-> <<>>, breaks |-> <<>>,
     status |-> "none", workLocation |-> "none",
     toCreate |-> <<>>, punchInTime |-> <<>>,
     taskId |-> NoDoc, entries |-> <<>>, found |-> <<>>, k |-> 0]

\* Attendance.findOne({ userId, date: today }): first match, NoDoc if none
findAttendance(u) ==
    IF \E i \in 1..Len(attendance) : attendance[i].userId = u
    THEN CHOOSE i \in 1..Len(attendance) :
            attendance[i].userId = u
            /\ \A j \in 1..(i - 1) : attendance[j].userId # u
    ELSE NoDoc

\* the task document is the one Task.findOne({ userId, date: today }) asks for
IsTaskOf(t, u) == t.userId = u /\ t.date = Midnight

\* Task.findOne({ userId, date: today }): first match, NoDoc if none
findTask(u) ==
    IF \E i \in 1..Len(tasks) : IsTaskOf(tasks[i], u)
    THEN CHOOSE i \in 1..Len(tasks) :
            IsTaskOf(tasks[i], u) /\ \A j \in 1..(i - 1) : ~IsTaskOf(tasks[j], u)
    ELSE NoDoc

\* statics.getTodayTask: findOne over the dates of the day, without a sort;
\* the documents it may return, NoDoc if none matches
getTodayTask(u) ==
    IF \E i \in 1..Len(tasks) : tasks[i].userId = u
    THEN {i \in 1..Len(tasks) : tasks[i].userId = u}
    ELSE {NoDoc}

Init ==
    /\ now = StartOfDay
    /\ attendance = <<>>
    /\ tasks = <<>>
    /\ proc = [w \in Workers |-> IdleProc]
    /\ resp = "none"
    /\ requests = 0

\* the clock moves on to the next minute of the grid; a request in flight
\* sees the minute turn, and is finished before any longer time has passed
Tick ==
    /\ \E t \in TimeGrid : t > now
    /\ now' = CHOOSE t \in TimeGrid : t > now /\ \A s \in TimeGrid : s > now => t <= s
    /\ now' = now + 1 \/ \A w \in Workers : proc[w].pc = "idle"
    /\ resp' = "none"
    /\ UNCHANGED <<attendance, tasks, proc, requests>>

Respond(w, r) ==
    /\ proc' = [proc EXCEPT ![w] = IdleProc]
    /\ resp' = r

Accept(w) ==
    /\ proc[w].pc = "idle"
    /\ requests' = requests + 1

\* the request of worker w goes on to step pc with the locals of record p
Continue(w, p) ==
    /\ proc' = [proc EXCEPT ![w] = p]
    /\ resp' = "none"

\* the in-memory copy of attendance document id, as findOne returns it
LoadAttendance(p, id) ==
    IF id = NoDoc THEN [p EXCEPT !.attId = NoDoc]
    ELSE [p EXCEPT !.attId = id,
                   !.sessions = attendance[id].sessions,
                   !.breaks = attendance[id].breaks,
                   !.status = attendance[id].status,
                   !.workLocation = attendance[id].workLocation]

\* attendance.save() of the in-memory copy held by p
SaveAttendance(p, sessions, breaks, status) ==
    attendance' = [attendance EXCEPT ![p.attId] =
        PreSaveAttendance([userId |-> p.user, sessions |-> sessions,
                           breaks |-> breaks, workSummary |-> ZeroSummary,
                           status |-> status, workLocation |-> p.workLocation])]

\* task.save() of an in-memory copy: pre('save') sorts, then the write
SaveTask(id, u, entries) ==
    IF id = NoDoc
    THEN tasks' = Append(tasks, [userId |-> u, date |-> Midnight,
                                 scheduledEntries |-> SortEntries(entries)])
    ELSE tasks' = [tasks EXCEPT ![id].scheduledEntries = SortEntries(entries)]

\* ---------------------------------------- what is stored, read directly
UserDocs(u) == {i \in 1..Len(attendance) : attendance[i].userId = u}

OpenSessionSet(sessions) ==
    {i \in 1..Len(sessions) : sessions[i].checkOut.time = NoTime}

OpenBreakSet(breaks) == {i \in 1..Len(breaks) : breaks[i].endTime = NoTime}

StoredOpenSession(u) ==
    \E i \in UserDocs(u) : OpenSessionSet(attendance[i].sessions) # {}

StoredOpenBreak(u) ==
    \E i \in UserDocs(u) : OpenBreakSet(attendance[i].breaks) # {}

\* ------------------------------------------- caps on what a day can hold
SessionsOf(u) ==
    SumSeq([i \in 1..Len(attendance) |->
              IF attendance[i].userId = u THEN Len(attendance[i].sessions) ELSE 0])

\* punch-ins of u that are past their read and have not written yet
PunchInsInFlight(u) ==
    Cardinality({w \in Workers :
        /\ proc[w].op = "punchIn" /\ proc[w].user = u
        /\ proc[w].pc \in {"pi_afterFind", "pi_seedSave", "pi_attWrite"}})

\* a punch-in is taken up when it is bound to fail or the day has room
RoomForSession(u) ==
    \/ now > cutoffTime
    \/ StoredOpenSession(u)
    \/ SessionsOf(u) + PunchInsInFlight(u) < MaxSessions

\* ------------------------------------------------------- POST /punch-in
\* validation, the 17:30 cutoff, then Attendance.findOne
PunchInStart(w, u, d) ==
    /\ Accept(w)
    /\ RoomForSession(u)
    /\ IF Now > cutoffTime
       THEN Respond(w, "CheckInNotAllowed")
       ELSE Continue(w, LoadAttendance(
                [IdleProc EXCEPT !.pc = "pi_afterFind", !.op = "punchIn",
                                 !.user = u, !.dist = d],
                findAttendance(u)))
    /\ UNCHANGED <<now, attendance, tasks>>

\* $push of the new session, or the first save of a new record
WriteSession(p, wl) ==
    IF p.attId # NoDoc
    THEN attendance' = [attendance EXCEPT
             ![p.attId].sessions = Append(@, newSession(Now)),
             ![p.attId].workLocation = wl]
    ELSE attendance' = Append(attendance,
             PreSaveAttendance([userId |-> p.user,
                                sessions |-> <<newSession(Now)>>,
                                breaks |-> <<>>,
                                workSummary |-> ZeroSummary,
                                status |-> "present",
                                workLocation |-> wl]))

AfterWriteSession(p) ==
    [p EXCEPT !.pc = "pi_createFind", !.punchInTime = TimeString(Now)]

\* active-session check, GPS, work location; then either Task.findOne of
\* the first-check-in seeding or the write of the new session
PunchInAfterFind(w) ==
    LET p == proc[w]
        withinRadius == p.dist <= radiusMeters
        isFirstCheckIn == p.attId = NoDoc \/ Len(p.sessions) = 0
        workLocation ==
            IF isFirstCheckIn /\ ~withinRadius THEN "home"
            ELSE IF p.attId # NoDoc THEN p.workLocation
            ELSE "office"
    IN /\ p.pc = "pi_afterFind"
       /\ IF hasActiveSession(p.sessions)
          THEN /\ Respond(w, "ActiveSessionExists")
               /\ UNCHANGED <<attendance>>
          ELSE IF isFirstCheckIn
          THEN /\ Continue(w, [p EXCEPT !.pc = "pi_seedSave",
                                        !.workLocation = workLocation,
                                        !.toCreate = tasksToCreate(Now),
                                        !.taskId = findTask(p.user),
                                        !.entries =
                                            IF findTask(p.user) = NoDoc THEN <<>>
                                            ELSE tasks[findTask(p.user)].scheduledEntries])
               /\ UNCHANGED <<attendance>>
          ELSE /\ WriteSession(p, workLocation)
               /\ Continue(w, AfterWriteSession(p))
       /\ UNCHANGED <<now, tasks, requests>>

\* first-check-in seeding: push onto the existing task, or create one; with
\* nothing to create the handler goes straight on to the session write
PunchInSeedSave(w) ==
    LET p == proc[w]
    IN /\ p.pc = "pi_seedSave"
       /\ IF p.taskId # NoDoc
          THEN /\ SaveTask(p.taskId, p.user, p.entries \o p.toCreate)
               /\ Continue(w, [p EXCEPT !.pc = "pi_attWrite"])
               /\ UNCHANGED <<attendance>>
          ELSE IF Len(p.toCreate) > 0
          THEN /\ SaveTask(NoDoc, p.user, p.toCreate)
               /\ Continue(w, [p EXCEPT !.pc = "pi_attWrite"])
               /\ UNCHANGED <<attendance>>
          ELSE /\ WriteSession(p, p.workLocation)
               /\ Continue(w, AfterWriteSession(p))
               /\ UNCHANGED <<tasks>>
       /\ UNCHANGED <<now, requests>>

\* the session write that follows the seeding
PunchInAttWrite(w) ==
    LET p == proc[w]
    IN /\ p.pc = "pi_attWrite"
       /\ WriteSession(p, p.workLocation)
       /\ Continue(w, AfterWriteSession(p))
       /\ UNCHANGED <<now, tasks, requests>>

\* statics.createTaskWithPunchIn: Task.findOne
PunchInCreateFind(w) ==
    LET p == proc[w]
    IN /\ p.pc = "pi_createFind"
       /\ Continue(w, [p EXCEPT !.pc = "pi_createSave",
                                !.taskId = findTask(p.user)])
       /\ UNCHANGED <<now, attendance, tasks, requests>>

\* statics.createTaskWithPunchIn: entries cleared, recreated from the
\* punch-in time, saved
PunchInCreateSave(w) ==
    LET p == proc[w]
    IN /\ p.pc = "pi_createSave"
       /\ SaveTask(p.taskId, p.user, createScheduledEntries(p.punchInTime))
       /\ Respond(w, "ok")
       /\ UNCHANGED <<now, attendance, requests>>

PunchIn(w) ==
    \/ \E u \in Users, d \in Distances : PunchInStart(w, u, d)
    \/ PunchInAfterFind(w)
    \/ PunchInSeedSave(w)
    \/ PunchInAttWrite(w)
    \/ PunchInCreateFind(w)
    \/ PunchInCreateSave(w)

\* ------------------------------------------------------ POST /punch-out
\* validation, then Attendance.findOne
PunchOutStart(w, u) ==
    /\ Accept(w)
    /\ Continue(w, LoadAttendance(
           [IdleProc EXCEPT !.pc = "po_afterFind", !.op = "punchOut", !.user = u],
           findAttendance(u)))
    /\ UNCHANGED <<now, attendance, tasks>>

\* record and active-session checks; check-out, work summary, status, save
PunchOutAfterFind(w) ==
    LET p == proc[w]
        idx == activeSessionIndex(p.sessions)
        sessions == [p.sessions EXCEPT ![idx].checkOut = newCheckOut(Now)]
        summary == calculateWorkSummary(sessions, p.breaks)
        status == IF summary.effectiveHours >= minWorkHours * 100
                  THEN "present" ELSE "partial"
    IN /\ p.pc = "po_afterFind"
       /\ IF p.attId = NoDoc \/ Len(p.sessions) = 0
          THEN /\ Respond(w, "NoPunchInRecord")
               /\ UNCHANGED <<attendance>>
          ELSE IF idx = 0
          THEN /\ Respond(w, "NoActiveSessionFound")
               /\ UNCHANGED <<attendance>>
          ELSE /\ SaveAttendance(p, sessions, p.breaks, status)
               /\ Respond(w, "ok")
       /\ UNCHANGED <<now, tasks, requests>>

PunchOut(w) ==
    \/ \E u \in Users : PunchOutStart(w, u)
    \/ PunchOutAfterFind(w)

\* ---------------------------------------------------- POST /break-start
BreaksOf(u) ==
    SumSeq([i \in 1..Len(attendance) |->
              IF attendance[i].userId = u THEN Len(attendance[i].breaks) ELSE 0])

BreakStartsInFlight(u) ==
    Cardinality({w \in Workers : proc[w].op = "breakStart" /\ proc[w].user = u})

\* a break-start is taken up when it is bound to fail or the day has room
RoomForBreak(u) ==
    \/ ~StoredOpenSession(u)
    \/ StoredOpenBreak(u)
    \/ BreaksOf(u) + BreakStartsInFlight(u) < MaxBreaks

BreakStartStart(w, u) ==
    /\ Accept(w)
    /\ RoomForBreak(u)
    /\ Continue(w, LoadAttendance(
           [IdleProc EXCEPT !.pc = "bs_afterFind", !.op = "breakStart", !.user = u],
           findAttendance(u)))
    /\ UNCHANGED <<now, attendance, tasks>>

\* record, active-session and ongoing-break checks; push of the break, save
BreakStartAfterFind(w) ==
    LET p == proc[w]
        newBreak == [startTime |-> Now, endTime |-> NoTime, duration |-> 0]
    IN /\ p.pc = "bs_afterFind"
       /\ IF p.attId = NoDoc \/ Len(p.sessions) = 0
          THEN /\ Respond(w, "PunchInFirst")
               /\ UNCHANGED <<attendance>>
          ELSE IF ~hasActiveSession(p.sessions)
          THEN /\ Respond(w, "MustBePunchedIn")
               /\ UNCHANGED <<attendance>>
          ELSE IF ongoingBreakIndex(p.breaks) # 0
          THEN /\ Respond(w, "OngoingBreakExists")
               /\ UNCHANGED <<attendance>>
          ELSE /\ SaveAttendance(p, p.sessions, Append(p.breaks, newBreak), p.status)
               /\ Respond(w, "ok")
       /\ UNCHANGED <<now, tasks, requests>>

BreakStart(w) ==
    \/ \E u \in Users : BreakStartStart(w, u)
    \/ BreakStartAfterFind(w)

\* ------------------------------------------------------ POST /break-end
BreakEndStart(w, u) ==
    /\ Accept(w)
    /\ Continue(w, LoadAttendance(
           [IdleProc EXCEPT !.pc = "be_afterFind", !.op = "breakEnd", !.user = u],
           findAttendance(u)))
    /\ UNCHANGED <<now, attendance, tasks>>

\* record and ongoing-break checks; end time and duration, summary, save
BreakEndAfterFind(w) ==
    LET p == proc[w]
        idx == ongoingBreakIndex(p.breaks)
        breaks == [p.breaks EXCEPT ![idx].endTime = Now,
                                   ![idx].duration = Now - p.breaks[idx].startTime]
    IN /\ p.pc = "be_afterFind"
       /\ IF p.attId = NoDoc
          THEN /\ Respond(w, "NoAttendanceRecord")
               /\ UNCHANGED <<attendance>>
          ELSE IF idx = 0
          THEN /\ Respond(w, "NoOngoingBreak")
               /\ UNCHANGED <<attendance>>
          ELSE /\ SaveAttendance(p, p.sessions, breaks, p.status)
               /\ Respond(w, "ok")
       /\ UNCHANGED <<now, tasks, requests>>

BreakEnd(w) ==
    \/ \E u \in Users : BreakEndStart(w, u)
    \/ BreakEndAfterFind(w)

\* -------------------------------------------------- POST /submit-update
\* validation, then Task.getTodayTask
SubmitStart(w, u, d) ==
    /\ Accept(w)
    /\ \E id \in getTodayTask(u) :
          Continue(w, [IdleProc EXCEPT
              !.pc = "su_afterFind", !.op = "submit", !.user = u, !.desc = d,
              !.taskId = id,
              !.entries = IF id = NoDoc THEN <<>>
                          ELSE tasks[id].scheduledEntries])
    /\ UNCHANGED <<now, attendance, tasks>>

\* the handler without its check for an escalated entry
SubmitAfterFindNoEscalatedCheck(w) ==
    LET p == proc[w]
        target == targetScheduledTime(Now)
        idx == FindEntry(p.entries, target)
        entries == [p.entries EXCEPT ![idx].status = "submitted",
                                     ![idx].description = p.desc,
                                     ![idx].submittedAt = Now]
    IN /\ p.pc = "su_afterFind"
       /\ IF p.taskId = NoDoc
          THEN /\ Respond(w, "NoTaskFound")
               /\ UNCHANGED <<tasks>>
          ELSE IF target = <<>>
          THEN /\ Respond(w, "OutOfWindow")
               /\ UNCHANGED <<tasks>>
          ELSE IF idx = 0
          THEN /\ Respond(w, "NoScheduledEntry")
               /\ UNCHANGED <<tasks>>
          ELSE IF p.entries[idx].status = "submitted"
          THEN /\ Respond(w, "AlreadySubmitted")
               /\ UNCHANGED <<tasks>>
          ELSE /\ SaveTask(p.taskId, p.user, entries)
               /\ Respond(w, "ok")
       /\ UNCHANGED <<now, attendance, requests>>

\* task found, window resolved, entry found, status checks; then the save
SubmitAfterFind(w) ==
    LET p == proc[w]
        target == targetScheduledTime(Now)
        idx == FindEntry(p.entries, target)
        entries == [p.entries EXCEPT ![idx].status = "submitted",
                                     ![idx].description = p.desc,
                                     ![idx].submittedAt = Now]
    IN /\ p.pc = "su_afterFind"
       /\ IF p.taskId = NoDoc
          THEN /\ Respond(w, "NoTaskFound")
               /\ UNCHANGED <<tasks>>
          ELSE IF target = <<>>
          THEN /\ Respond(w, "OutOfWindow")
               /\ UNCHANGED <<tasks>>
          ELSE IF idx = 0
          THEN /\ Respond(w, "NoScheduledEntry")
               /\ UNCHANGED <<tasks>>
          ELSE IF p.entries[idx].status = "escalated"
          THEN /\ Respond(w, "AlreadyEscalated")
               /\ UNCHANGED <<tasks>>
          ELSE IF p.entries[idx].status = "submitted"
          THEN /\ Respond(w, "AlreadySubmitted")
               /\ UNCHANGED <<tasks>>
          ELSE /\ SaveTask(p.taskId, p.user, entries)
               /\ Respond(w, "ok")
       /\ UNCHANGED <<now, attendance, requests>>

Submit(w) ==
    \/ \E u \in Users, d \in Descriptions : SubmitStart(w, u, d)
    \/ SubmitAfterFind(w)

\* --------------------------------- TaskUpdateCron, SMSCronJob: the sweeps
\* Task.find({ 'scheduledEntries.scheduledTime': slot,
\*             'scheduledEntries.status': st }): ids in collection order
MatchesSlotStatus(t, slot, st) ==
    /\ t.date = Midnight
    /\ \E i \in 1..Len(t.scheduledEntries) : t.scheduledEntries[i].scheduledTime = slot
    /\ \E i \in 1..Len(t.scheduledEntries) : t.scheduledEntries[i].status = st

\* what a sweep holds in memory: each found task's id and entries
Snapshot(ids) ==
    [i \in 1..Len(ids) |-> [id |-> ids[i], entries |-> tasks[ids[i]].scheduledEntries]]

RECURSIVE IdsFrom(_, _, _)
IdsFrom(i, slot, st) ==
    IF i > Len(tasks) THEN <<>>
    ELSE IF (slot = <<>> /\ tasks[i].date = Midnight)
            \/ MatchesSlotStatus(tasks[i], slot, st)
         THEN <<i>> \o IdsFrom(i + 1, slot, st)
         ELSE IdsFrom(i + 1, slot, st)

\* the status a sweep reads and the status it writes
FromStatus(kind) == IF kind = "escalate" THEN "warning_sent" ELSE "pending"
ToStatus(kind) == IF kind = "escalate" THEN "escalated" ELSE "warning_sent"

\* the warning branch without its upper bound, the escalation branch taking
\* the warned entries
updateEntriesInSequence(entries, t) ==
    [i \in 1..Len(entries) |->
       LET minutesPastScheduled == t - SlotMinutes(entries[i].scheduledTime)
       IN IF entries[i].status = "pending" /\ minutesPastScheduled >= 10
          THEN [entries[i] EXCEPT !.status = "warning_sent"]
          ELSE IF entries[i].status = "warning_sent" /\ minutesPastScheduled >= 20
          THEN [entries[i] EXCEPT !.status = "escalated"]
          ELSE entries[i]]

\* updateTaskStatuses: the entries of one task as the minute-by-minute
\* sweep leaves them at minute t
updateEntries(entries, t) ==
    [i \in 1..Len(entries) |->
       LET minutesPastScheduled == t - SlotMinutes(entries[i].scheduledTime)
       IN IF entries[i].status = "pending"
             /\ minutesPastScheduled >= 10 /\ minutesPastScheduled < 20
          THEN [entries[i] EXCEPT !.status = "warning_sent"]
          ELSE IF entries[i].status = "pending" /\ minutesPastScheduled >= 20
          THEN [entries[i] EXCEPT !.status = "escalated"]
          ELSE entries[i]]

\* the entries a sweep of this kind writes for one task held in memory
SweptEntries(kind, slot, entries, t) ==
    IF kind = "update" THEN updateEntries(entries, t)
    ELSE LET i == FindEntryWithStatus(entries, slot, FromStatus(kind))
         IN IF i = 0 THEN entries
            ELSE [entries EXCEPT ![i].status = ToStatus(kind)]

\* the first task at or after position k that the sweep has to save, 0 if none
NextToSave(kind, slot, found, k, t) ==
    IF \E j \in k..Len(found) : SweptEntries(kind, slot, found[j].entries, t) # found[j].entries
    THEN CHOOSE j \in k..Len(found) :
            /\ SweptEntries(kind, slot, found[j].entries, t) # found[j].entries
            /\ \A i \in k..(j - 1) :
                 SweptEntries(kind, slot, found[i].entries, t) = found[i].entries
    ELSE 0

\* the collection ts after one whole sweep that runs alone at minute t
SweepOnce(kind, slot, ts, t) ==
    [i \in 1..Len(ts) |->
       LET swept == SweptEntries(kind, slot, ts[i].scheduledEntries, t)
       IN IF ((slot = <<>> /\ ts[i].date = Midnight)
                \/ MatchesSlotStatus(ts[i], slot, FromStatus(kind)))
             /\ swept # ts[i].scheduledEntries
          THEN [ts[i] EXCEPT !.scheduledEntries = SortEntries(swept)]
          ELSE ts[i]]

\* a sweep begins: the Task.find
SweepStart(w, kind, slot) ==
    LET found == Snapshot(IdsFrom(1, slot, FromStatus(kind)))
    IN /\ Accept(w)
       /\ IF Len(found) = 0
          THEN Respond(w, "ok")
          ELSE Continue(w, [IdleProc EXCEPT !.pc = "sw_save", !.op = kind,
                                            !.slot = slot, !.found = found,
                                            !.k = 1])
       /\ UNCHANGED <<now, attendance, tasks>>

\* the loop of a sweep up to and including its next task.save()
SweepSave(w) ==
    LET p == proc[w]
        j == NextToSave(p.op, p.slot, p.found, p.k, Now)
    IN /\ p.pc = "sw_save"
       /\ IF j = 0
          THEN /\ Respond(w, "ok")
               /\ UNCHANGED <<tasks>>
          ELSE /\ SaveTask(p.found[j].id, "none",
                           SweptEntries(p.op, p.slot, p.found[j].entries, Now))
               /\ Continue(w, [p EXCEPT !.k = j + 1])
       /\ UNCHANGED <<now, attendance, requests>>

\* startWarningChecks: sendWarnings(slot) ten minutes after the slot
CronSendWarnings(w) ==
    \E i \in 1..Len(scheduledTimes) :
        /\ Now = SlotMinutes(scheduledTimes[i]) + 10
        /\ SweepStart(w, "warn", scheduledTimes[i])

\* the escalation jobs scheduled with the minutes of the warning jobs
CronEscalateMissedAtWarningTime(w) ==
    \E i \in 1..Len(scheduledTimes) :
        /\ Now = SlotMinutes(scheduledTimes[i]) + 10
        /\ SweepStart(w, "escalate", scheduledTimes[i])

\* startEscalationChecks: escalateMissed(slot) twenty minutes after the slot
CronEscalateMissed(w) ==
    \E i \in 1..Len(scheduledTimes) :
        /\ Now = SlotMinutes(scheduledTimes[i]) + 20
        /\ SweepStart(w, "escalate", scheduledTimes[i])

\* POST /task-update/send-warnings and /task-update/escalate, at any time
ManualSendWarnings(w) == \E slot \in SweepSlots : SweepStart(w, "warn", slot)

ManualEscalate(w) == \E slot \in SweepSlots : SweepStart(w, "escalate", slot)

\* SMSCronJob: updateTaskStatuses, every minute
UpdateTaskStatuses(w) == SweepStart(w, "update", <<>>)

\* one step of the request worker w has in flight, or a new request to it
Step(w) ==
    \/ PunchIn(w)
    \/ PunchOut(w)
    \/ BreakStart(w)
    \/ BreakEnd(w)
    \/ Submit(w)
    \/ CronSendWarnings(w)
    \/ CronEscalateMissed(w)
    \/ ManualSendWarnings(w)
    \/ ManualEscalate(w)
    \/ UpdateTaskStatuses(w)
    \/ SweepSave(w)

\* requests and sweeps one after the other
Next ==
    /\ \/ Tick
       \/ Step("w1")
    /\ requests' <= MaxRequests

Spec == Init /\ [][Next]_vars

\* two requests or sweeps in flight at once
RaceNext ==
    /\ \/ Tick
       \/ \E w \in Workers : Step(w)
    /\ requests' <= MaxRaceRequests

RaceSpec == Init /\ [][RaceNext]_vars

\* ------------------------------------------- the ledger under its scheduler
\* the clock moves on the finer grid once every request has been answered
LedgerTick ==
    /\ \E t \in LedgerGrid : t > now
    /\ now' = CHOOSE t \in LedgerGrid : t > now /\ \A s \in LedgerGrid : s > now => t <= s
    /\ \A w \in Workers : proc[w].pc = "idle"
    /\ resp' = "none"
    /\ UNCHANGED <<attendance, tasks, proc, requests>>

\* punch-in and submit requests and the sweeps the scheduler starts, one
\* after the other
LedgerNext ==
    /\ \/ LedgerTick
       \/ PunchIn("w1")
       \/ Submit("w1")
       \/ CronSendWarnings("w1")
       \/ CronEscalateMissed("w1")
       \/ UpdateTaskStatuses("w1")
       \/ SweepSave("w1")
    /\ requests' <= MaxLedgerRequests

LedgerSpec == Init /\ [][LedgerNext]_vars

\* ------------------------------------------ submits at any minute of a day
\* the ledger a punch-in at the start of the day has seeded, or none
WindowInit ==
    /\ now \in MinutesOfDay
    /\ attendance = <<>>
    /\ tasks \in { <<>>,
                   <<[userId |-> "u1", date |-> Midnight,
                      scheduledEntries |-> createScheduledEntries(TimeString(0))]>> }
    /\ proc = [w \in Workers |-> IdleProc]
    /\ resp = "none"
    /\ requests = 0

WindowNext ==
    /\ \/ Submit("w1")
       \/ ManualSendWarnings("w1")
       \/ ManualEscalate("w1")
       \/ UpdateTaskStatuses("w1")
       \/ SweepSave("w1")
    /\ requests' <= MaxWindowRequests

WindowSpec == WindowInit /\ [][WindowNext]_vars

\* --------------------------- one day under each of the two sweep cadences
\* what POST /submit-update leaves of the entries it has loaded, at minute t
\* with description d
submitEntries(entries, t, d) ==
    LET target == targetScheduledTime(t)
        idx == FindEntry(entries, target)
    IN IF target = <<>> \/ idx = 0 THEN entries
       ELSE IF entries[idx].status \in {"escalated", "submitted"} THEN entries
       ELSE SortEntries([entries EXCEPT ![idx].status = "submitted",
                                        ![idx].description = d,
                                        ![idx].submittedAt = t])

\* the ledger doc after the fixed triggers that fire at minute t: the
\* warning job of the slot ten minutes before, the escalation job of the
\* slot twenty minutes before
fixedTriggers(doc, t) ==
    LET slots == {scheduledTimes[i] : i \in 1..Len(scheduledTimes)}
        warnAt == {slot \in slots : t = SlotMinutes(slot) + 10}
        escalateAt == {slot \in slots : t = SlotMinutes(slot) + 20}
        warned == IF warnAt = {} THEN doc
                  ELSE SweepOnce("warn", CHOOSE slot \in warnAt : TRUE, <<doc>>, t)[1]
    IN IF escalateAt = {} THEN warned
       ELSE SweepOnce("escalate", CHOOSE slot \in escalateAt : TRUE, <<warned>>, t)[1]

\* the ledger doc after the continuous sweep of minute t
continuousSweep(doc, t) == SweepOnce("update", <<>>, <<doc>>, t)[1]

\* the same seeded day twice: document 1 lives under the fixed triggers
\* only, document 2 under the continuous sweep only
PairInit ==
    /\ now = StartOfDay
    /\ attendance = <<>>
    /\ tasks = [i \in 1..2 |->
                  [userId |-> "u1", date |-> Midnight,
                   scheduledEntries |-> createScheduledEntries(TimeString(StartOfDay))]]
    /\ proc = [w \in Workers |-> IdleProc]
    /\ resp = "none"
    /\ requests = 0

\* both days after the sweeps of the current minute
PairSwept == <<fixedTriggers(tasks[1], now), continuousSweep(tasks[2], now)>>

\* the sweeps of the current minute fire, each cadence on its own day
PairSweep ==
    /\ PairSwept # tasks
    /\ tasks' = PairSwept
    /\ resp' = "ok"
    /\ UNCHANGED <<now, attendance, proc, requests>>

\* the same submit arrives in both days
PairSubmit(d) ==
    /\ tasks' = [i \in 1..2 |->
                   [tasks[i] EXCEPT !.scheduledEntries = submitEntries(@, now, d)]]
    /\ requests' = requests + 1
    /\ resp' = "none"
    /\ UNCHANGED <<now, attendance, proc>>

\* the clock moves on once the sweeps of the minute have fired
PairTick ==
    /\ PairSwept = tasks
    /\ \E t \in CadenceGrid : t > now
    /\ now' = CHOOSE t \in CadenceGrid : t > now /\ \A s \in CadenceGrid : s > now => t <= s
    /\ resp' = "none"
    /\ UNCHANGED <<attendance, tasks, proc, requests>>

PairNext ==
    /\ \/ PairTick
       \/ PairSweep
       \/ \E d \in Descriptions : PairSubmit(d)
    /\ requests' <= MaxPairRequests

PairSpec == PairInit /\ [][PairNext]_vars

\* ------------------------------------- sweeps whose task.save() can fail
\* the next task.save() of the loop rejects: the catch around the whole
\* loop logs the error and the sweep returns
SweepSaveFails(w) ==
    LET p == proc[w]
        j == NextToSave(p.op, p.slot, p.found, p.k, Now)
    IN /\ p.pc = "sw_save"
       /\ j # 0
       /\ Respond(w, "SweepError")
       /\ UNCHANGED <<now, attendance, tasks, requests>>

\* the ledgers of two users, each seeded by a punch-in at the start of the day
IsolationInit ==
    /\ now = StartOfDay
    /\ attendance = <<>>
    /\ tasks = [i \in 1..2 |->
                  [userId |-> IF i = 1 THEN "u1" ELSE "u2", date |-> Midnight,
                   scheduledEntries |-> createScheduledEntries(TimeString(StartOfDay))]]
    /\ proc = [w \in Workers |-> IdleProc]
    /\ resp = "none"
    /\ requests = 0

\* submits of the first user and the sweeps, one after the other, every save
\* of a sweep either going through or failing
IsolationNext ==
    /\ \/ LedgerTick
       \/ Submit("w1")
       \/ CronSendWarnings("w1")
       \/ CronEscalateMissed("w1")
       \/ UpdateTaskStatuses("w1")
       \/ SweepSave("w1")
       \/ SweepSaveFails("w1")
    /\ requests' <= MaxIsolationRequests

IsolationSpec == IsolationInit /\ [][IsolationNext]_vars

\* ------------------------------------ requests whose storage calls can fail
\* the first findOne of a handler rejects: the catch of the handler answers
\* 500
FindFails(w) ==
    /\ Accept(w)
    /\ Respond(w, "ServerError")
    /\ UNCHANGED <<now, attendance, tasks>>

\* POST /punch-in with a rejected storage call: the seeding swallows its
\* error and the handler goes on to the session write; a rejected session
\* write and a rejected User.findById after it answer 500;
\* createTaskWithPunchIn swallows its error and the handler answers success
PunchInStorageFails(w) ==
    LET p == proc[w]
        isFirstCheckIn == p.attId = NoDoc \/ Len(p.sessions) = 0
    IN /\ p.op = "punchIn"
       /\ \/ /\ p.pc = "pi_afterFind"
             /\ ~hasActiveSession(p.sessions) /\ ~isFirstCheckIn
             /\ Respond(w, "ServerError")
          \/ /\ p.pc = "pi_seedSave"
             /\ IF p.taskId # NoDoc \/ Len(p.toCreate) > 0
                THEN Continue(w, [p EXCEPT !.pc = "pi_attWrite"])
                ELSE Respond(w, "ServerError")
          \/ /\ p.pc = "pi_attWrite"
             /\ Respond(w, "ServerError")
          \/ /\ p.pc = "pi_createFind"
             /\ Respond(w, "ServerError") \/ Respond(w, "ok")
          \/ /\ p.pc = "pi_createSave"
             /\ Respond(w, "ok")
       /\ UNCHANGED <<now, attendance, tasks, requests>>

\* POST /punch-out, /break-start, /break-end: attendance.save() rejects
AttendanceSaveFails(w) ==
    LET p == proc[w]
    IN /\ \/ /\ p.pc = "po_afterFind"
             /\ p.attId # NoDoc /\ activeSessionIndex(p.sessions) # 0
          \/ /\ p.pc = "bs_afterFind"
             /\ p.attId # NoDoc /\ hasActiveSession(p.sessions)
             /\ ongoingBreakIndex(p.breaks) = 0
          \/ /\ p.pc = "be_afterFind"
             /\ p.attId # NoDoc /\ ongoingBreakIndex(p.breaks) # 0
       /\ Respond(w, "ServerError")
       /\ UNCHANGED <<now, attendance, tasks, requests>>

\* POST /submit-update: todayTask.save() rejects
SubmitSaveFails(w) ==
    LET p == proc[w]
        idx == FindEntry(p.entries, targetScheduledTime(Now))
    IN /\ p.pc = "su_afterFind"
       /\ p.taskId # NoDoc /\ idx # 0
       /\ p.entries[idx].status \notin {"escalated", "submitted"}
       /\ Respond(w, "ServerError")
       /\ UNCHANGED <<now, attendance, tasks, requests>>

\* the five operations one after the other, every storage call of theirs
\* either going through or failing
FaultNext ==
    /\ \/ Tick
       \/ PunchIn("w1")
       \/ PunchOut("w1")
       \/ BreakStart("w1")
       \/ BreakEnd("w1")
       \/ Submit("w1")
       \/ FindFails("w1")
       \/ PunchInStorageFails("w1")
       \/ AttendanceSaveFails("w1")
       \/ SubmitSaveFails("w1")
    /\ requests' <= MaxFaultRequests

FaultSpec == Init /\ [][FaultNext]_vars

\* ------------------------------------------- a day of work with its pause
\* the clock moves on the grid of the day once the request is answered
ScenarioTick ==
    /\ \E t \in ScenarioGrid : t > now
    /\ now' = CHOOSE t \in ScenarioGrid : t > now /\ \A s \in ScenarioGrid : s > now => t <= s
    /\ \A w \in Workers : proc[w].pc = "idle"
    /\ resp' = "none"
    /\ UNCHANGED <<attendance, tasks, proc, requests>>

\* punch-in, punch-out and break requests, one after the other
ScenarioNext ==
    /\ \/ ScenarioTick
       \/ PunchIn("w1")
       \/ PunchOut("w1")
       \/ BreakStart("w1")
       \/ BreakEnd("w1")
    /\ requests' <= MaxScenarioRequests

ScenarioSpec == Init /\ [][ScenarioNext]_vars

\* ----------------------------------- POST /submit-update with its validator
\* String.prototype.trim on the descriptions that arrive
trim(d) == IF d = " " THEN "" ELSE IF d = " done " THEN "done" ELSE d

\* the handler taking every description as valid
SubmitUnvalidated(w, u, raw) == SubmitStart(w, u, trim(raw))

\* body('description').trim().isLength({ min: 1 }): a description that is
\* empty once trimmed is refused with 400, any other goes on trimmed
SubmitValidated(w, u, raw) ==
    IF trim(raw) = ""
    THEN /\ Accept(w)
         /\ Respond(w, "ValidationFailed")
         /\ UNCHANGED <<now, attendance, tasks>>
    ELSE SubmitStart(w, u, trim(raw))

\* punch-ins, submits as they arrive and the sweeps the scheduler starts,
\* one after the other
EntryNext ==
    /\ \/ LedgerTick
       \/ PunchIn("w1")
       \/ \E u \in Users, raw \in RawDescriptions : SubmitValidated("w1", u, raw)
       \/ SubmitAfterFind("w1")
       \/ CronSendWarnings("w1")
       \/ CronEscalateMissed("w1")
       \/ UpdateTaskStatuses("w1")
       \/ SweepSave("w1")
    /\ requests' <= MaxEntryRequests

EntrySpec == Init /\ [][EntryNext]_vars

\* ------------------------------------------------------ GET /tasks/today
\* statics.createOrGetTodayTask: getTodayTask; the task found is returned
GetTodayStart(w, u) ==
    /\ Accept(w)
    /\ \E id \in getTodayTask(u) :
          IF id # NoDoc THEN Respond(w, "ok")
          ELSE Continue(w, [IdleProc EXCEPT !.pc = "gt_save", !.op = "getToday",
                                            !.user = u])
    /\ UNCHANGED <<now, attendance, tasks>>

\* statics.createOrGetTodayTask: no task found, so a new one is saved with
\* date: new Date(), the current instant, and no entries
GetTodaySave(w) ==
    LET p == proc[w]
    IN /\ p.pc = "gt_save"
       /\ tasks' = Append(tasks, [userId |-> p.user, date |-> Now,
                                  scheduledEntries |-> <<>>])
       /\ Respond(w, "ok")
       /\ UNCHANGED <<now, attendance, requests>>

GetToday(w) ==
    \/ \E u \in Users : GetTodayStart(w, u)
    \/ GetTodaySave(w)

\* requests for today's task, punch-ins and submits, one after the other
TodayNext ==
    /\ \/ Tick
       \/ GetToday("w1")
       \/ PunchIn("w1")
       \/ Submit("w1")
    /\ requests' <= MaxTodayRequests

TodaySpec == Init /\ [][TodayNext]_vars

\* ================================================================ claims
Terminal == {"submitted", "escalated"}

\* the status stored for slot in task document i of ledger collection ts
StatusOf(ts, i, slot) ==
    IF i <= Len(ts) /\ \E j \in 1..Len(ts[i].scheduledEntries) :
                          ts[i].scheduledEntries[j].scheduledTime = slot
    THEN LET j == CHOOSE j \in 1..Len(ts[i].scheduledEntries) :
                     ts[i].scheduledEntries[j].scheduledTime = slot
         IN ts[i].scheduledEntries[j].status
    ELSE "absent"

SlotSet == {scheduledTimes[i] : i \in 1..Len(scheduledTimes)}

\* worker w takes the step, and its request was at pc before it
StepAt(w, pc) == proc[w].pc = pc /\ proc'[w] # proc[w]

OpenSessionCount(u) ==
    SumSeq([i \in 1..Len(attendance) |->
              IF attendance[i].userId = u
              THEN Cardinality(OpenSessionSet(attendance[i].sessions)) ELSE 0])

\* C1: for every user and day, under every interleaving of punch-in and
\* punch-out requests, the attendance record holds at most one session with
\* checkIn set and checkOut unset.
C1_AtMostOneOpenSession == \A u \in Users : OpenSessionCount(u) <= 1

\* C2: once an entry is submitted or escalated, no operation changes its
\* status to pending, to warning_sent or to the other terminal status.
C2_TerminalAbsorbing ==
    [][\A i \in 1..Len(tasks) : \A slot \in SlotSet :
         StatusOf(tasks, i, slot) \in Terminal
            => StatusOf(tasks', i, slot) \in {StatusOf(tasks, i, slot), "absent"}]_vars

AllowedTransitions ==
    {<<"pending", "warning_sent">>, <<"warning_sent", "escalated">>,
     <<"pending", "submitted">>}

\* C4: every status transition of an entry is pending -> warning_sent,
\* warning_sent -> escalated or pending -> submitted; no operation moves an
\* entry from warning_sent to submitted.
C4_OnlyAllowedTransitions ==
    [][\A i \in 1..Len(tasks) : \A slot \in SlotSet :
         LET old == StatusOf(tasks, i, slot)
             new == StatusOf(tasks', i, slot)
         IN (old # "absent" /\ new # "absent" /\ new # old)
               => <<old, new>> \in AllowedTransitions]_vars

\* the entries of a document as a set, and whether a slot occurs twice
EntrySet(entries) == {entries[j] : j \in 1..Len(entries)}

NoDuplicateSlot(entries) ==
    \A j, k \in 1..Len(entries) :
        entries[j].scheduledTime = entries[k].scheduledTime => j = k

\* C5: seeding again for a user-day that already has entries leaves every
\* seeded entry unchanged and never yields two entries for one slot; a
\* user-day never has more entries than there are canonical slots.
C5_SeedIdempotent ==
    [][/\ \A i \in 1..Len(tasks') :
            /\ NoDuplicateSlot(tasks'[i].scheduledEntries)
            /\ Len(tasks'[i].scheduledEntries) <= Len(scheduledTimes)
       /\ \A w \in Workers :
            (proc[w].op = "punchIn" /\ proc'[w] # proc[w]) =>
               \A i \in 1..Len(tasks) :
                  EntrySet(tasks[i].scheduledEntries)
                     \subseteq EntrySet(tasks'[i].scheduledEntries)]_vars

\* C6: once an entry for a slot exists in a ledger, an entry for that slot
\* exists in every later state of the day.
C6_EntriesNeverRemoved ==
    [][\A i \in 1..Len(tasks) : \A slot \in SlotSet :
         StatusOf(tasks, i, slot) # "absent"
            => StatusOf(tasks', i, slot) # "absent"]_vars

\* a punch-in request arrives at worker w
PunchInArrives(w) ==
    /\ proc[w].pc = "idle"
    /\ proc'[w].op = "punchIn" \/ resp' = "CheckInNotAllowed"

\* the attendance collection gains exactly one open session of user u
\* stamped t, in a new record or at the end of u's record, and nothing else
\* of any record changes
AppendsOneSession(u, t) ==
    \/ /\ UserDocs(u) = {}
       /\ Len(attendance') = Len(attendance) + 1
       /\ SubSeq(attendance', 1, Len(attendance)) = attendance
       /\ attendance'[Len(attendance')].userId = u
       /\ Len(attendance'[Len(attendance')].sessions) = 1
       /\ attendance'[Len(attendance')].sessions[1].checkIn.time = t
       /\ attendance'[Len(attendance')].sessions[1].checkOut.time = NoTime
       /\ attendance'[Len(attendance')].breaks = <<>>
    \/ /\ Len(attendance') = Len(attendance)
       /\ \E i \in UserDocs(u) :
            /\ \A k \in 1..Len(attendance) : k # i => attendance'[k] = attendance[k]
            /\ Len(attendance'[i].sessions) = Len(attendance[i].sessions) + 1
            /\ SubSeq(attendance'[i].sessions, 1, Len(attendance[i].sessions))
                  = attendance[i].sessions
            /\ attendance'[i].sessions[Len(attendance'[i].sessions)].checkIn.time = t
            /\ attendance'[i].sessions[Len(attendance'[i].sessions)].checkOut.time
                  = NoTime
            /\ attendance'[i].breaks = attendance[i].breaks
            /\ attendance'[i].workSummary = attendance[i].workSummary
            /\ attendance'[i].status = attendance[i].status

\* what the active-session check of a punch-in does, and the one write of
\* a punch-in that passes it
PunchInChecksAndAppends(w) ==
    /\ StepAt(w, "pi_afterFind") =>
          IF StoredOpenSession(proc[w].user)
          THEN resp' = "ActiveSessionExists" /\ attendance' = attendance
               /\ tasks' = tasks
          ELSE resp' = "none"
    /\ (proc[w].op = "punchIn" /\ proc'[w] # proc[w]) =>
          IF proc'[w].pc = "pi_createFind" /\ proc[w].pc # "pi_createFind"
          THEN AppendsOneSession(proc[w].user, now)
          ELSE attendance' = attendance

\* C7 as stated: a punch-in fails with ActiveSessionExists when the record
\* has an open session, leaving it unchanged, and otherwise appends exactly
\* one open session and leaves the earlier sessions unchanged; it has no
\* other outcome.
C7_PunchInAsStated ==
    [][\A w \in Workers :
         /\ PunchInArrives(w) => resp' = "none"
         /\ PunchInChecksAndAppends(w)]_vars

\* C7 amended: a punch-in arriving after 17:30 is refused and changes
\* nothing; one arriving up to 17:30 fails with ActiveSessionExists when the
\* record has an open session, leaving it unchanged, and otherwise appends
\* exactly one open session and leaves the earlier sessions unchanged.
C7_PunchIn ==
    [][\A w \in Workers :
         /\ PunchInArrives(w) =>
               /\ attendance' = attendance /\ tasks' = tasks
               /\ IF now > cutoffTime THEN resp' = "CheckInNotAllowed"
                                      ELSE resp' = "none"
         /\ PunchInChecksAndAppends(w)]_vars

\* a punch-in has just been refused for an open session, which is still there
C7_Witness ==
    /\ resp = "ActiveSessionExists"
    /\ \E u \in Users : OpenSessionCount(u) = 1 /\ SessionsOf(u) = 2

NoActiveSession == {"NoPunchInRecord", "NoActiveSessionFound"}

\* record i has exactly its open session j closed at minute t, the status
\* follows the stored effective hours, and nothing else changes
ClosesSession(i, j, t) ==
    /\ Len(attendance') = Len(attendance)
    /\ \A k \in 1..Len(attendance) : k # i => attendance'[k] = attendance[k]
    /\ Len(attendance'[i].sessions) = Len(attendance[i].sessions)
    /\ \A k \in 1..Len(attendance[i].sessions) :
          k # j => attendance'[i].sessions[k] = attendance[i].sessions[k]
    /\ attendance'[i].sessions[j].checkIn = attendance[i].sessions[j].checkIn
    /\ attendance'[i].sessions[j].checkOut.time = t
    /\ attendance'[i].breaks = attendance[i].breaks
    /\ attendance'[i].workLocation = attendance[i].workLocation
    /\ attendance'[i].status =
          IF attendance'[i].workSummary.effectiveHours >= 8 * 100
          THEN "present" ELSE "partial"

\* C8: a punch-out with no open session fails with NoActiveSession and
\* changes nothing; otherwise it sets checkOut on exactly the one open
\* session, leaves the other sessions and their number unchanged, and sets
\* status to present if the effective hours are at least 8, else partial.
C8_PunchOut ==
    [][\A w \in Workers : StepAt(w, "po_afterFind") =>
         IF ~StoredOpenSession(proc[w].user)
         THEN resp' \in NoActiveSession /\ attendance' = attendance
              /\ tasks' = tasks
         ELSE /\ resp' = "ok"
              /\ tasks' = tasks
              /\ \E i \in UserDocs(proc[w].user) :
                   \E j \in OpenSessionSet(attendance[i].sessions) :
                      /\ OpenSessionSet(attendance[i].sessions) = {j}
                      /\ ClosesSession(i, j, now)]_vars

\* a punch-out has closed the second session of a day that counts as present
C8_Witness ==
    /\ resp = "ok"
    /\ \E i \in 1..Len(attendance) :
         /\ Len(attendance[i].sessions) = 2
         /\ OpenSessionSet(attendance[i].sessions) = {}
         /\ attendance[i].status = "present"
         /\ attendance[i].workSummary.effectiveHours >= 8 * 100

\* C9: an open break exists only if an open session exists, and at most one
\* break is open, after any sequence of punch-in, punch-out, break-start
\* and break-end.
C9_OpenBreakNeedsOpenSession ==
    \A i \in 1..Len(attendance) :
        /\ Cardinality(OpenBreakSet(attendance[i].breaks)) <= 1
        /\ OpenBreakSet(attendance[i].breaks) # {}
              => OpenSessionSet(attendance[i].sessions) # {}

\* record i gains exactly one open break started at minute t
AppendsOneBreak(i, t) ==
    /\ Len(attendance') = Len(attendance)
    /\ \A k \in 1..Len(attendance) : k # i => attendance'[k] = attendance[k]
    /\ attendance'[i].sessions = attendance[i].sessions
    /\ Len(attendance'[i].breaks) = Len(attendance[i].breaks) + 1
    /\ SubSeq(attendance'[i].breaks, 1, Len(attendance[i].breaks))
          = attendance[i].breaks
    /\ attendance'[i].breaks[Len(attendance'[i].breaks)].startTime = t
    /\ attendance'[i].breaks[Len(attendance'[i].breaks)].endTime = NoTime

\* C10: a break-start fails with NoActiveSession when the record has no
\* open session and with OngoingBreakExists when a break is open, changing
\* nothing in both cases; otherwise it appends exactly one open break and
\* changes no session.
C10_BreakStart ==
    [][\A w \in Workers : StepAt(w, "bs_afterFind") =>
         IF ~StoredOpenSession(proc[w].user)
         THEN resp' \in {"PunchInFirst", "MustBePunchedIn"}
              /\ attendance' = attendance /\ tasks' = tasks
         ELSE IF StoredOpenBreak(proc[w].user)
         THEN resp' = "OngoingBreakExists"
              /\ attendance' = attendance /\ tasks' = tasks
         ELSE /\ resp' = "ok"
              /\ tasks' = tasks
              /\ \E i \in UserDocs(proc[w].user) : AppendsOneBreak(i, now)]_vars

\* a break-start has just been refused because a break is still open
C10_Witness ==
    /\ resp = "OngoingBreakExists"
    /\ \E i \in 1..Len(attendance) :
         /\ OpenBreakSet(attendance[i].breaks) # {}
         /\ OpenSessionSet(attendance[i].sessions) # {}

NoActiveBreak == {"NoAttendanceRecord", "NoOngoingBreak"}

\* the minutes of the breaks of a record that have ended, from their
\* stored start and end
EndedBreakMinutes(breaks) ==
    SumSeq([k \in 1..Len(breaks) |->
              IF breaks[k].endTime = NoTime THEN 0
              ELSE breaks[k].endTime - breaks[k].startTime])

\* the minutes of the closed sessions of a record
ClosedSessionMinutes(sessions) ==
    SumSeq([k \in 1..Len(sessions) |->
              IF sessions[k].checkOut.time = NoTime THEN 0
              ELSE sessions[k].checkOut.time - sessions[k].checkIn.time])

\* record i has exactly its open break j closed at minute t with its
\* duration, the work summary is recomputed, and nothing else changes
ClosesBreak(i, j, t) ==
    /\ Len(attendance') = Len(attendance)
    /\ \A k \in 1..Len(attendance) : k # i => attendance'[k] = attendance[k]
    /\ attendance'[i].sessions = attendance[i].sessions
    /\ Len(attendance'[i].breaks) = Len(attendance[i].breaks)
    /\ \A k \in 1..Len(attendance[i].breaks) :
          k # j => attendance'[i].breaks[k] = attendance[i].breaks[k]
    /\ attendance'[i].breaks[j].startTime = attendance[i].breaks[j].startTime
    /\ attendance'[i].breaks[j].endTime = t
    /\ attendance'[i].breaks[j].duration = t - attendance[i].breaks[j].startTime
    /\ attendance'[i].status = attendance[i].status
    /\ attendance'[i].workLocation = attendance[i].workLocation
    /\ attendance'[i].workSummary.totalBreakTime
          = EndedBreakMinutes(attendance'[i].breaks)
    /\ attendance'[i].workSummary.effectiveHours * 60
          <= (ClosedSessionMinutes(attendance'[i].sessions)
                - EndedBreakMinutes(attendance'[i].breaks)) * 100 + 30
    /\ attendance'[i].workSummary.effectiveHours * 60
          > (ClosedSessionMinutes(attendance'[i].sessions)
                - EndedBreakMinutes(attendance'[i].breaks)) * 100 - 30

\* C11: a break-end with no open break fails with NoActiveBreak and changes
\* nothing; otherwise it sets end time and duration on exactly the one open
\* break, leaves all sessions and all other breaks unchanged, and
\* recomputes the work summary.
C11_BreakEnd ==
    [][\A w \in Workers : StepAt(w, "be_afterFind") =>
         IF ~StoredOpenBreak(proc[w].user)
         THEN resp' \in NoActiveBreak /\ attendance' = attendance
              /\ tasks' = tasks
         ELSE /\ resp' = "ok"
              /\ tasks' = tasks
              /\ \E i \in UserDocs(proc[w].user) :
                   \E j \in OpenBreakSet(attendance[i].breaks) :
                      /\ OpenBreakSet(attendance[i].breaks) = {j}
                      /\ ClosesBreak(i, j, now)]_vars

\* a break-end has closed a break of 95 minutes, and the stored break time
\* shows it
C11_Witness ==
    /\ resp = "ok"
    /\ \E i \in 1..Len(attendance) :
         /\ Len(attendance[i].breaks) > 0
         /\ OpenBreakSet(attendance[i].breaks) = {}
         /\ attendance[i].breaks[Len(attendance[i].breaks)].endTime = now
         /\ attendance[i].breaks[Len(attendance[i].breaks)].duration = 95
         /\ attendance[i].workSummary.totalBreakTime >= 95

\* the stored entry for slot in task document i, as a set: empty or one entry
EntryOf(ts, i, slot) ==
    {ts[i].scheduledEntries[j] : j \in {k \in 1..Len(ts[i].scheduledEntries) :
                                          ts[i].scheduledEntries[k].scheduledTime = slot}}

\* the slots whose announced window holds minute t
WindowsAt(t) == {win \in acceptanceWindows : win.first <= t /\ t <= win.last}

\* task document i changes in nothing but the entry for slot, which becomes
\* submitted with description d and the time t
SubmitsEntry(i, slot, d, t) ==
    /\ Len(tasks') = Len(tasks)
    /\ \A k \in 1..Len(tasks) : k # i => tasks'[k] = tasks[k]
    /\ \A other \in SlotSet :
          other # slot => EntryOf(tasks', i, other) = EntryOf(tasks, i, other)
    /\ EntryOf(tasks', i, slot) =
          {[scheduledTime |-> slot, status |-> "submitted", description |-> d,
            submittedAt |-> t]}

\* C12: a submit on a submitted entry fails with AlreadySubmitted and on an
\* escalated entry with AlreadyEscalated, leaving status, description and
\* submittedAt unchanged; on a pending or warning_sent entry it sets the
\* status to submitted and stores the description and the time.
C12_Submit ==
    [][\A w \in Workers :
         (StepAt(w, "su_afterFind") /\ WindowsAt(now) # {}) =>
            \A win \in WindowsAt(now) : \A i \in 1..Len(tasks) :
               tasks[i].userId = proc[w].user =>
                  LET st == StatusOf(tasks, i, win.slot)
                  IN /\ st = "submitted" =>
                          resp' = "AlreadySubmitted" /\ tasks' = tasks
                     /\ st = "escalated" =>
                          resp' = "AlreadyEscalated" /\ tasks' = tasks
                     /\ st \in {"pending", "warning_sent"} =>
                          /\ resp' = "ok"
                          /\ SubmitsEntry(i, win.slot, proc[w].desc, now)]_vars

\* a submit at 10:55 has just been refused because the 10:30 entry is
\* escalated
C12_Witness ==
    /\ now = 10 * 60 + 55
    /\ resp = "AlreadyEscalated"
    /\ \E i \in 1..Len(tasks) : StatusOf(tasks, i, <<10, 30>>) = "escalated"

\* user u has a task document for the day
HasLedger(u) == \E i \in 1..Len(tasks) : tasks[i].userId = u

C14_Resolver ==
    [][/\ Cardinality(WindowsAt(now)) <= 1
       /\ \A win \in WindowsAt(now) : targetScheduledTime(now) = win.slot
       /\ WindowsAt(now) = {} => targetScheduledTime(now) = <<>>
       /\ \A a, b \in acceptanceWindows :
            a # b => a.last < b.first \/ b.last < a.first
       /\ \A win \in acceptanceWindows :
            /\ win.slot \in SlotSet
            /\ win.first <= SlotMinutes(win.slot)
            /\ SlotMinutes(win.slot) <= win.last
       /\ \A slot \in SlotSet :
            Cardinality({win \in acceptanceWindows : win.slot = slot}) = 1
       /\ \A w \in Workers :
            (StepAt(w, "su_afterFind") /\ HasLedger(proc[w].user)) =>
               /\ resp' = "OutOfWindow" <=> WindowsAt(now) = {}
               /\ resp' = "ok" =>
                     \E win \in WindowsAt(now) : \E i \in 1..Len(tasks) :
                        SubmitsEntry(i, win.slot, proc[w].desc, now)]_vars

\* a submit in the last minute of the last window has been stored for 17:30
C14_Witness ==
    /\ now = 17 * 60 + 30
    /\ resp = "ok"
    /\ \E i \in 1..Len(tasks) : StatusOf(tasks, i, <<17, 30>>) = "submitted"

\* minutes since the scheduled time of a slot, the measure of the examples
\* (10:41 is 11 minutes past 10:30)
Elapsed(slot, t) == t - SlotMinutes(slot)

\* the slots a sweep held by worker w looks at
SweptSlots(w) == IF proc[w].op = "update" THEN SlotSet ELSE {proc[w].slot}

\* C15: a sweep moves an entry to warning_sent exactly when it is pending
\* and 10 to 19 minutes have passed, to escalated exactly when it is pending
\* or warning_sent and 20 minutes or more have passed, and changes no entry
\* before 10 minutes have passed; for slot 10:30 a sweep at 10:41 gives
\* warning_sent and a sweep at 10:52 gives escalated.
C15_SweepThresholds ==
    [][\A w \in Workers : StepAt(w, "sw_save") =>
         /\ \A i \in 1..Len(tasks) : \A slot \in SlotSet :
               LET old == StatusOf(tasks, i, slot)
                   new == StatusOf(tasks', i, slot)
               IN new # old =>
                     \/ /\ new = "warning_sent" /\ old = "pending"
                        /\ Elapsed(slot, now) >= 10 /\ Elapsed(slot, now) < 20
                     \/ /\ new = "escalated" /\ old \in {"pending", "warning_sent"}
                        /\ Elapsed(slot, now) >= 20
         /\ proc'[w].pc = "idle" =>
               \A i \in 1..Len(tasks') : \A slot \in SweptSlots(w) :
                  /\ ~(StatusOf(tasks', i, slot) = "pending"
                          /\ Elapsed(slot, now) >= 10)
                  /\ ~(StatusOf(tasks', i, slot) = "warning_sent"
                          /\ Elapsed(slot, now) >= 20)]_vars

\* the sweeps there are: each trigger for each slot, and the continuous one
SweepKinds ==
    ({"warn", "escalate"} \X SlotSet) \cup {<<"update", <<>> >>}

\* C20: a sweep run twice in a row at the same minute leaves every ledger
\* as one run leaves it, for the warning trigger, the escalation trigger and
\* the continuous sweep; and a sweep that runs alone writes what one run
\* is.
C20_SweepIdempotent ==
    [][/\ \A sw \in SweepKinds :
            SweepOnce(sw[1], sw[2], SweepOnce(sw[1], sw[2], tasks', now'), now')
               = SweepOnce(sw[1], sw[2], tasks', now')
       /\ \A w \in Workers : StepAt(w, "sw_save") =>
            \A i \in 1..Len(tasks) :
               tasks'[i] # tasks[i] =>
                  tasks'[i] = SweepOnce(proc[w].op, proc[w].slot, tasks, now)[i]]_vars

\* the warning trigger of 10:40 has run: the 10:30 entry is warned, and a
\* second run of the trigger would change nothing
C20_Witness ==
    /\ now = 10 * 60 + 40
    /\ resp = "ok"
    /\ \E i \in 1..Len(tasks) : StatusOf(tasks, i, <<10, 30>>) = "warning_sent"
    /\ SweepOnce("warn", <<10, 30>>, tasks, now) = tasks

\* the closing time of the acceptance window of a slot
WindowClose(slot) ==
    (CHOOSE win \in acceptanceWindows : win.slot = slot).close

\* the ledger of user u holds, in one document, a pending entry without
\* description for each slot of the set and no other entry
LedgerIsPendingFor(ts, u, slots) ==
    /\ Cardinality({i \in 1..Len(ts) : ts[i].userId = u}) = 1
    /\ \A i \in 1..Len(ts) : ts[i].userId = u =>
          /\ Len(ts[i].scheduledEntries) = Cardinality(slots)
          /\ EntrySet(ts[i].scheduledEntries) =
                {[scheduledTime |-> slot, status |-> "pending",
                  description |-> "", submittedAt |-> NoTime] : slot \in slots}

\* C19 as stated: the seeding of a punch-in leaves a pending entry for
\* exactly the canonical slots whose deadline, the closing time of the
\* slot's acceptance window, is later than now, and for no other slot.
C19_SeedAsStated ==
    [][\A w \in Workers : StepAt(w, "pi_createSave") =>
         LedgerIsPendingFor(tasks', proc[w].user,
                            {slot \in SlotSet : WindowClose(slot) > now})]_vars

\* C19 amended: the seeding of a punch-in leaves a pending entry for
\* exactly the canonical slots whose scheduled time is later than now, and
\* for no other slot; a first punch-in at 09:05 yields the five entries.
C19_Seed ==
    [][\A w \in Workers : StepAt(w, "pi_createSave") =>
         /\ LedgerIsPendingFor(tasks', proc[w].user,
                               {slot \in SlotSet : SlotMinutes(slot) > now})
         /\ now = 9 * 60 + 5 =>
               LedgerIsPendingFor(tasks', proc[w].user, SlotSet)]_vars

\* a punch-in at 10:40 has seeded the four slots from 12:00 on
C19_Witness ==
    /\ now = 10 * 60 + 40
    /\ resp = "ok"
    /\ \E i \in 1..Len(attendance) :
         /\ Len(attendance[i].sessions) = 1
         /\ attendance[i].sessions[1].checkIn.time = now
    /\ LedgerIsPendingFor(tasks, "u1", SlotSet \ {<<10, 30>>})

\* C18 as stated: warning and escalation are timed from the closing time of
\* the slot's acceptance window: no entry becomes warning_sent earlier than
\* 10 minutes after its window closes, nor escalated earlier than 20
\* minutes after it, so none is warned or escalated while a submit would
\* still resolve to its slot.
C18_TimedFromWindowClose ==
    [][\A i \in 1..Len(tasks) : \A slot \in SlotSet :
         LET old == StatusOf(tasks, i, slot)
             new == StatusOf(tasks', i, slot)
         IN /\ (new = "warning_sent" /\ old # new) =>
                  /\ now >= WindowClose(slot) + 10
                  /\ \A win \in WindowsAt(now) : win.slot # slot
            /\ (new = "escalated" /\ old # new) =>
                  /\ now >= WindowClose(slot) + 20
                  /\ \A win \in WindowsAt(now) : win.slot # slot]_vars

\* C18 amended: warning and escalation by the scheduler are timed from the
\* scheduled time of the slot: no entry becomes warning_sent earlier than 10
\* minutes after its scheduled time, nor escalated earlier than 20 minutes
\* after it.
C18_TimedFromSlot ==
    [][\A i \in 1..Len(tasks) : \A slot \in SlotSet :
         LET old == StatusOf(tasks, i, slot)
             new == StatusOf(tasks', i, slot)
         IN /\ (new = "warning_sent" /\ old # new) => Elapsed(slot, now) >= 10
            /\ (new = "escalated" /\ old # new) => Elapsed(slot, now) >= 20]_vars

\* the escalation trigger of 10:50 has escalated the 10:30 entry, whose
\* window is still open
C18_Witness ==
    /\ now = 10 * 60 + 50
    /\ resp = "none"
    /\ \E w \in Workers : proc[w].op = "escalate"
    /\ \E i \in 1..Len(tasks) : StatusOf(tasks, i, <<10, 30>>) = "escalated"
    /\ \E win \in WindowsAt(now) : win.slot = <<10, 30>>

\* every slot is 20 minutes or more past, and the sweeps of the minute have
\* fired
DayIsOver ==
    /\ \A slot \in SlotSet : Elapsed(slot, now) >= 20
    /\ PairSwept = tasks

\* C16: for every set of submit times, the day under the fixed triggers
\* only and the same day under the continuous sweep only end with the same
\* status in every entry, once every slot is at least 20 minutes past.
C16_CadencesConverge ==
    DayIsOver => \A slot \in SlotSet :
                    StatusOf(tasks, 1, slot) = StatusOf(tasks, 2, slot)

\* C17: under either cadence, with its sweeps fired at every minute, an
\* entry that is never submitted is escalated once 20 minutes have passed
\* since its slot: none is left pending or warning_sent.
C17_UnsubmittedEndsEscalated ==
    \A i \in 1..Len(tasks) : \A slot \in SlotSet :
        (PairSwept = tasks /\ Elapsed(slot, now) >= 20)
           => StatusOf(tasks, i, slot) \notin {"pending", "warning_sent"}

\* the ledger whose save a sweep of worker w is about to issue
LedgerAtSave(w) ==
    proc[w].found[NextToSave(proc[w].op, proc[w].slot, proc[w].found,
                             proc[w].k, now)].id

\* an entry of this status is due in a sweep of this kind at minute t
DueIn(kind, slot, st, t) ==
    IF kind = "warn" THEN st = "pending"
    ELSE IF kind = "escalate" THEN st = "warning_sent"
    ELSE st = "pending" /\ Elapsed(slot, t) >= 10

\* C21: when the save of one ledger fails during a sweep, every other
\* ledger with a due entry at that slot has been transitioned when the
\* sweep ends: none is left with its due entry untouched.
C21_SweepIsolatesFailures ==
    [][\A w \in Workers :
         (StepAt(w, "sw_save") /\ resp' = "SweepError") =>
            \A i \in 1..Len(tasks') : \A slot \in SweptSlots(w) :
               i # LedgerAtSave(w) =>
                  ~DueIn(proc[w].op, slot, StatusOf(tasks', i, slot), now)]_vars

\* the answers with which an operation fails: the refusals and the 500
Failures ==
    {"CheckInNotAllowed", "ActiveSessionExists", "NoPunchInRecord",
     "NoActiveSessionFound", "PunchInFirst", "MustBePunchedIn",
     "OngoingBreakExists", "NoAttendanceRecord", "NoOngoingBreak",
     "NoTaskFound", "OutOfWindow", "NoScheduledEntry", "AlreadyEscalated",
     "AlreadySubmitted", "ServerError"}

\* C22: a punch-in, punch-out, break-start, break-end or submit that ends
\* in failure leaves the stored attendance record and ledger as they were
\* before the call; stated for the first call of a day, before which
\* nothing is stored: when it has failed, nothing is stored, and a punch-in
\* that fails after its seeding leaves no seeded entries.
C22_FailureLeavesNoTrace ==
    (requests = 1 /\ resp \in Failures) => attendance = <<>> /\ tasks = <<>>

\* C23: the work location of a day is decided by its first punch-in only,
\* office if the coordinate is at most 1000 m from the reference point and
\* home otherwise, and no later punch-in, punch-out or break operation
\* changes it, whatever coordinate it carries.
C23_WorkLocationFixedByFirstPunchIn ==
    [][/\ \A i \in 1..Len(attendance) :
            attendance'[i].workLocation = attendance[i].workLocation
       /\ \A w \in Workers :
            (proc[w].op = "punchIn" /\ Len(attendance') = Len(attendance) + 1) =>
               attendance'[Len(attendance')].workLocation =
                  IF proc[w].dist <= 1000 THEN "office" ELSE "home"]_vars

\* a second punch-in, from exactly 1000 m, has just written its session
\* into a day that began at home, and the day is still at home
C23_Witness ==
    \E w \in Workers : \E i \in 1..Len(attendance) :
        /\ proc[w].pc = "pi_createFind"
        /\ proc[w].dist = 1000
        /\ Len(attendance[i].sessions) = 2
        /\ attendance[i].sessions[2].checkIn.time = now
        /\ attendance[i].workLocation = "home"

\* x is m minutes in hundredths of an hour, rounded to the nearest
IsHundredthsOf(x, m) == x * 60 <= m * 100 + 30 /\ x * 60 > m * 100 - 30

\* the stored summary of a record is the one its sessions and breaks give:
\* total over closed sessions, break minutes over ended breaks, effective
\* from their difference, overtime and undertime against 8 hours
SummaryIsCurrent(rec) ==
    LET worked == ClosedSessionMinutes(rec.sessions)
        paused == EndedBreakMinutes(rec.breaks)
        ws == rec.workSummary
    IN /\ IsHundredthsOf(ws.totalHours, worked)
       /\ ws.totalBreakTime = paused
       /\ IsHundredthsOf(ws.effectiveHours, worked - paused)
       /\ ws.overtime = IF ws.effectiveHours > 800 THEN ws.effectiveHours - 800 ELSE 0
       /\ ws.undertime = IF ws.effectiveHours > 800 THEN 0 ELSE 800 - ws.effectiveHours

\* C24: in every stored state of an attendance record the work summary
\* equals the summary computed from the record's current sessions and
\* breaks; no punch-in, punch-out, break-start or break-end leaves a stale
\* summary.
C24_SummaryIsCurrent ==
    \A i \in 1..Len(attendance) : SummaryIsCurrent(attendance[i])

\* a second punch-in has pushed its session, without a save, into a record
\* whose summary counts a closed session and an ended break
C24_Witness ==
    \E w \in Workers : \E i \in 1..Len(attendance) :
        /\ proc[w].pc = "pi_createFind"
        /\ Len(attendance[i].sessions) = 2
        /\ attendance[i].sessions[1].checkOut.time # NoTime
        /\ attendance[i].sessions[2].checkOut.time = NoTime
        /\ attendance[i].workSummary.totalHours > 0
        /\ attendance[i].workSummary.totalBreakTime > 0

\* C25: as long as a day holds no break, the effective hours of its work
\* summary equal its total hours, after every punch-in and punch-out.
C25_NoBreaksEffectiveIsTotal ==
    \A i \in 1..Len(attendance) :
        attendance[i].breaks = <<>> =>
           attendance[i].workSummary.effectiveHours
              = attendance[i].workSummary.totalHours

\* a day of two closed sessions and no break, with hours counted
C25_Witness ==
    \E i \in 1..Len(attendance) :
        /\ attendance[i].breaks = <<>>
        /\ Len(attendance[i].sessions) = 2
        /\ OpenSessionSet(attendance[i].sessions) = {}
        /\ attendance[i].workSummary.totalHours > 0
        /\ attendance[i].sessions[2].checkOut.time > attendance[i].sessions[2].checkIn.time

\* the record holds one session from 09:05 to 17:40 and one ended break of
\* 30 minutes
IsScenarioB(rec) ==
    /\ Len(rec.sessions) = 1
    /\ rec.sessions[1].checkIn.time = 9 * 60 + 5
    /\ rec.sessions[1].checkOut.time = 17 * 60 + 40
    /\ Len(rec.breaks) = 1
    /\ rec.breaks[1].endTime # NoTime
    /\ rec.breaks[1].endTime - rec.breaks[1].startTime = 30

\* C26: one session from 09:05 to 17:40 with one closed break of 30 minutes
\* gives total hours 8.58, break minutes 30, effective hours 8.08, overtime
\* 0.08 and undertime 0, and the status after the punch-out is present.
C26_ScenarioB ==
    \A i \in 1..Len(attendance) :
        IsScenarioB(attendance[i]) =>
           /\ attendance[i].workSummary =
                 [totalHours |-> 858, totalBreakTime |-> 30,
                  effectiveHours |-> 808, overtime |-> 8, undertime |-> 0]
           /\ attendance[i].status = "present"

\* the punch-out of 17:40 has just closed the session of 09:05, the break
\* of 12:00 to 12:30 behind it
C26_Witness ==
    /\ now = 17 * 60 + 40
    /\ resp = "ok"
    /\ \E i \in 1..Len(attendance) :
         /\ IsScenarioB(attendance[i])
         /\ attendance[i].breaks[1].startTime = 12 * 60

\* the task documents stored for user u
LedgersOf(u) == {i \in 1..Len(tasks) : tasks[i].userId = u}

\* C27: after any sequence of requests for today's task and punch-ins, at
\* most one task document exists per user and day, so that submit and the
\* sweeps read the ledger that the seeding wrote.
C27_OneLedgerPerUserDay ==
    \A u \in Users : Cardinality(LedgersOf(u)) <= 1

\* C28: whenever no session of a record is open and a punch-out has
\* happened, the status is present if and only if the stored effective
\* hours are at least 8, also after a break is ended following the
\* punch-out and after further punch-in and punch-out pairs.
C28_StatusFollowsEffectiveHours ==
    \A i \in 1..Len(attendance) :
        (Len(attendance[i].sessions) > 0
           /\ OpenSessionSet(attendance[i].sessions) = {}) =>
              (attendance[i].status = "present"
                  <=> attendance[i].workSummary.effectiveHours >= 8 * 100)

\* C29: in every reachable state of a record the effective hours are at
\* least 0 and at most the total hours: the counted break minutes never
\* exceed the counted session minutes.
C29_EffectiveWithinTotal ==
    \A i \in 1..Len(attendance) :
        /\ 0 <= attendance[i].workSummary.effectiveHours
        /\ attendance[i].workSummary.effectiveHours
              <= attendance[i].workSummary.totalHours

\* C30: in every reachable state of a ledger an entry has its submission
\* time set and a description that is not empty if and only if its status
\* is submitted; no sweep, seed or punch-in leaves a submission time or a
\* description under another status.
C30_SubmissionDataIffSubmitted ==
    \A i \in 1..Len(tasks) : \A j \in 1..Len(tasks[i].scheduledEntries) :
        LET e == tasks[i].scheduledEntries[j]
        IN /\ e.status = "submitted" => e.submittedAt # NoTime /\ e.description # ""
           /\ e.status # "submitted" => e.submittedAt = NoTime /\ e.description = ""

\* the 10:30 entry was submitted at 10:41, after the warning time of 10:40,
\* and at 10:50 a sweep or request has just ended with the submission data
\* in place and the 12:00 entry still pending
C30_Witness ==
    /\ now = 10 * 60 + 50
    /\ resp = "ok"
    /\ \E i \in 1..Len(tasks) : \E e \in EntryOf(tasks, i, <<10, 30>>) :
         /\ e.status = "submitted"
         /\ e.description = "done"
         /\ e.submittedAt = 10 * 60 + 41
    /\ \E i \in 1..Len(tasks) : StatusOf(tasks, i, <<12, 0>>) = "pending"

====
